---- MODULE Spec2Model ----
(***************************************************************************)
(* Model of the content API of mhakash/zelf-hack:                          *)
(*   - ContentAPIView.post      (src/src/contents/views.py), the ingest    *)
(*     call, one ORM statement per step, run by concurrent requests;       *)
(*   - generate_comment         (src/src/contents/tasks.py), the periodic  *)
(*     enrichment gate, run by concurrent workers against the cache;       *)
(*   - ContentAPIView._build_filters and ContentStatsAPIView.get, the      *)
(*     read side, as operators over the stored tables;                     *)
(*   - ContentAPIView.get with CustomPagination, the paginated listing     *)
(*     and its per-item data points;                                       *)
(*   - app.conf.beat_schedule   (src/src/contentapi/celery.py), the        *)
(*     periodic schedule.                                                  *)
(* The tables are sequences of rows; a row's primary key is its index.     *)
(***************************************************************************)
EXTENDS Integers, Sequences, FiniteSets, TLC

VARIABLES
    authors,      \* Author table: rows [unique_id, username, followers]
    contents,     \* Content table: rows [unique_id, author, title, counters, timestamp]
    tags,         \* Tag table: rows [name]
    contentTags,  \* ContentTag table: rows [content, tag]
    clock,        \* the current time, in seconds
    ipc,          \* per request: the statement of post() it is at
    ipayload,     \* per request: serializer.validated_data
    iauthor,      \* per request: author_object (a primary key, 0 before it is set)
    icontent,     \* per request: content_object (a primary key, 0 before it is set)
    itag,         \* per request: position in the hashtags list
    itagobj,      \* per request: tag_object (a primary key, 0 before it is set)
    iexisted,     \* per request: the first Content lookup found a row
    ioverlap,     \* per request: another request was in flight during this one
    everOverlap,  \* history: two ingest calls have been in flight at once
    ncalls,       \* number of ingest calls started
    iwrote,       \* history, per request: its call has written a row (no statement removes one)
    gpc,          \* per worker: the statement of generate_comment it is at
    glist,        \* per worker: the evaluated queryset (primary keys, newest first)
    gidx,         \* per worker: position in the queryset
    gresp,        \* per worker: the response of requests.post
    grun,         \* per worker: the number of the run it executes
    cache,        \* the Dedup Cache: content pk -> entry or NoEntry
    calls,        \* history: the collaborator calls made
    runs,         \* history: per run, the runs finished and the keys uncached at its start, its state
    qreq,         \* the last read request (parameters)
    qres,         \* the last read response
    bclock,       \* seconds since the beat scheduler started
    blast,        \* per schedule entry: when it was last sent (last_run_at)
    bsent         \* history, per task: how many times the scheduler has sent it

ivars == <<ipc, ipayload, iauthor, icontent, itag, itagobj, iexisted, ioverlap, everOverlap, ncalls,
           iwrote>>
gvars == <<gpc, glist, gidx, gresp, grun, cache, calls, runs>>
qvars == <<qreq, qres>>
bvars == <<bclock, blast, bsent>>
tables == <<authors, contents, tags, contentTags>>
vars == <<authors, contents, tags, contentTags, clock, ivars, gvars, qvars, bvars>>

----------------------------------------------------------------------------
(* Bounds *)

NumRequests == 2
MaxCalls == 2
NumWorkers == 2
MaxRuns == 2
NumGateContents == 2
MaxHalfDays == 2
MaxPosts == 4
MaxBeatSeconds == 120
NumRecentContents == 11

Requests == 1..NumRequests
Workers == 1..NumWorkers

----------------------------------------------------------------------------
(* Payloads of the ingest call *)

Payload(a, name, c, likes, comments, views, shares, hashtags) ==
    [ author |-> [unique_external_id |-> a, unique_name |-> name],
      unq_external_id |-> c,
      title |-> <<"H", "e", "l", "l", "o">>,
      stats |-> [likes |-> likes, comments |-> comments, views |-> views, shares |-> shares],
      hashtags |-> hashtags ]

\* A first ingestion, a re-ingestion of the same ids with new counters, and
\* another author's content.
Payloads ==
    { Payload("a1", "bob", "c1", 10, 5, 100, 5, <<"x", "x", "y">>),
      Payload("a1", "bob", "c1", 11, 6, 0, 7, <<"y">>),
      Payload("a2", "amy", "c2", 10, 5, 100, 5, <<"y">>) }

NoPayload == [ author |-> [unique_external_id |-> "", unique_name |-> ""],
               unq_external_id |-> "", title |-> <<>>,
               stats |-> [likes |-> 0, comments |-> 0, views |-> 0, shares |-> 0],
               hashtags |-> <<>> ]

----------------------------------------------------------------------------
(* Storage layer *)

AuthorIds == { authors[i].unique_id : i \in DOMAIN authors }
ContentIds == { contents[i].unique_id : i \in DOMAIN contents }
TagNames == { tags[i].name : i \in DOMAIN tags }
ContentTagPairs == { <<contentTags[i].content, contentTags[i].tag>> : i \in DOMAIN contentTags }

\* Model.objects.get(...): the primary key of the row with the given key.
AuthorPk(uid) == CHOOSE i \in DOMAIN authors : authors[i].unique_id = uid
ContentPk(uid) == CHOOSE i \in DOMAIN contents : contents[i].unique_id = uid
TagPk(name) == CHOOSE i \in DOMAIN tags : tags[i].name = name

\* A lookup that never finds the row, so that every call goes on to create.
FoundNever(keys, k) == FALSE

\* Model.objects.get(...) finds a row (otherwise it raises DoesNotExist).
Found(keys, k) == k \in keys

\* A create without the uniqueness guard of the storage layer.
ConflictsNever(keys, k) == FALSE

\* The storage layer's uniqueness constraint: a create of an existing key conflicts.
Conflicts(keys, k) == k \in keys

----------------------------------------------------------------------------
(* ContentAPIView.post: the ingest call *)

Finished == {"idle", "ok", "error", "rejected"}
Active(p) == ipc[p] \notin Finished

\* The loop head of _update_tags_mapping: the next tag, or the response.
TagLoop(p, k) == IF k <= Len(ipayload[p].hashtags) THEN "tag_get" ELSE "respond"

\* serializer.is_valid(raise_exception=True) on a valid payload.
PostStart(p, payload) ==
    /\ ~Active(p)
    /\ ncalls < MaxCalls
    /\ ncalls' = ncalls + 1
    /\ ipc' = [ipc EXCEPT ![p] = "author_get"]
    /\ ipayload' = [ipayload EXCEPT ![p] = payload]
    /\ iauthor' = [iauthor EXCEPT ![p] = 0]
    /\ icontent' = [icontent EXCEPT ![p] = 0]
    /\ itag' = [itag EXCEPT ![p] = 1]
    /\ itagobj' = [itagobj EXCEPT ![p] = 0]
    /\ iexisted' = [iexisted EXCEPT ![p] = FALSE]
    /\ ioverlap' = [q \in Requests |->
                      IF q = p THEN \E r \in Requests \ {p} : Active(r)
                      ELSE IF Active(q) THEN TRUE ELSE ioverlap[q]]
    /\ everOverlap' = (everOverlap \/ \E r \in Requests \ {p} : Active(r))
    /\ iwrote' = [iwrote EXCEPT ![p] = FALSE]
    /\ UNCHANGED <<tables, clock, gvars, qvars, bvars>>

\* A post that validates only after it has written the author of the payload.
PostRejectedLate(p) ==
    /\ ~Active(p)
    /\ ncalls < MaxCalls
    /\ ncalls' = ncalls + 1
    /\ ipc' = [ipc EXCEPT ![p] = "rejected"]
    /\ ipayload' = [ipayload EXCEPT ![p] = NoPayload]
    /\ ioverlap' = [ioverlap EXCEPT ![p] = FALSE]
    /\ authors' = Append(authors, [unique_id |-> "a0", username |-> "", followers |-> 0])
    /\ iwrote' = [iwrote EXCEPT ![p] = TRUE]
    /\ UNCHANGED <<iauthor, icontent, itag, itagobj, iexisted, everOverlap>>
    /\ UNCHANGED <<contents, tags, contentTags, clock, gvars, qvars, bvars>>

\* serializer.is_valid(raise_exception=True) on an invalid payload: a 400 response.
PostRejected(p) ==
    /\ ~Active(p)
    /\ ncalls < MaxCalls
    /\ ncalls' = ncalls + 1
    /\ ipc' = [ipc EXCEPT ![p] = "rejected"]
    /\ ipayload' = [ipayload EXCEPT ![p] = NoPayload]
    /\ ioverlap' = [ioverlap EXCEPT ![p] = FALSE]
    /\ iwrote' = [iwrote EXCEPT ![p] = FALSE]
    /\ UNCHANGED <<iauthor, icontent, itag, itagobj, iexisted, everOverlap>>
    /\ UNCHANGED <<tables, clock, gvars, qvars, bvars>>

\* _get_or_create_author: Author.objects.get(unique_id=...)
AuthorGet(p) ==
    /\ ipc[p] = "author_get"
    /\ LET uid == ipayload[p].author.unique_external_id IN
       IF Found(AuthorIds, uid)
       THEN /\ iauthor' = [iauthor EXCEPT ![p] = AuthorPk(uid)]
            /\ ipc' = [ipc EXCEPT ![p] = "content_get"]
       ELSE /\ ipc' = [ipc EXCEPT ![p] = "author_create"]
            /\ UNCHANGED iauthor
    /\ UNCHANGED <<ipayload, icontent, itag, itagobj, iexisted, ioverlap, everOverlap, ncalls, iwrote>>
    /\ UNCHANGED <<tables, clock, gvars, qvars, bvars>>

\* _get_or_create_author: Author.objects.create(...); a conflict raises out of post.
AuthorCreate(p) ==
    /\ ipc[p] = "author_create"
    /\ LET a == ipayload[p].author IN
       IF Conflicts(AuthorIds, a.unique_external_id)
       THEN /\ ipc' = [ipc EXCEPT ![p] = "error"]
            /\ UNCHANGED <<authors, iwrote>>
       ELSE /\ authors' = Append(authors, [unique_id |-> a.unique_external_id,
                                           username |-> a.unique_name,
                                           followers |-> 0])
            /\ iwrote' = [iwrote EXCEPT ![p] = TRUE]
            /\ ipc' = [ipc EXCEPT ![p] = "author_reget"]
    /\ UNCHANGED <<ipayload, iauthor, icontent, itag, itagobj, iexisted, ioverlap, everOverlap, ncalls>>
    /\ UNCHANGED <<contents, tags, contentTags, clock, gvars, qvars, bvars>>

\* _get_or_create_author: the second Author.objects.get, after the create.
AuthorReget(p) ==
    /\ ipc[p] = "author_reget"
    /\ iauthor' = [iauthor EXCEPT ![p] = AuthorPk(ipayload[p].author.unique_external_id)]
    /\ ipc' = [ipc EXCEPT ![p] = "content_get"]
    /\ UNCHANGED <<ipayload, icontent, itag, itagobj, iexisted, ioverlap, everOverlap, ncalls, iwrote>>
    /\ UNCHANGED <<tables, clock, gvars, qvars, bvars>>

\* _get_or_create_content: Content.objects.get(unique_id=...)
ContentGet(p) ==
    /\ ipc[p] = "content_get"
    /\ LET uid == ipayload[p].unq_external_id IN
       IF Found(ContentIds, uid)
       THEN /\ icontent' = [icontent EXCEPT ![p] = ContentPk(uid)]
            /\ iexisted' = [iexisted EXCEPT ![p] = TRUE]
            /\ ipc' = [ipc EXCEPT ![p] = TagLoop(p, 1)]
       ELSE /\ ipc' = [ipc EXCEPT ![p] = "content_create"]
            /\ UNCHANGED <<icontent, iexisted>>
    /\ UNCHANGED <<ipayload, iauthor, itag, itagobj, ioverlap, everOverlap, ncalls, iwrote>>
    /\ UNCHANGED <<tables, clock, gvars, qvars, bvars>>

\* The row Content.objects.create(...) writes.
NewContent(p) ==
    [ unique_id |-> ipayload[p].unq_external_id,
      author |-> iauthor[p],
      title |-> ipayload[p].title,
      like_count |-> ipayload[p].stats.likes,
      comment_count |-> ipayload[p].stats.comments,
      view_count |-> ipayload[p].stats.views,
      share_count |-> ipayload[p].stats.shares,
      timestamp |-> clock ]

\* _get_or_create_content: Content.objects.create(...); a conflict raises out of post.
ContentCreate(p) ==
    /\ ipc[p] = "content_create"
    /\ IF Conflicts(ContentIds, ipayload[p].unq_external_id)
       THEN /\ ipc' = [ipc EXCEPT ![p] = "error"]
            /\ UNCHANGED <<contents, iwrote>>
       ELSE /\ contents' = Append(contents, NewContent(p))
            /\ iwrote' = [iwrote EXCEPT ![p] = TRUE]
            /\ ipc' = [ipc EXCEPT ![p] = "content_reget"]
    /\ UNCHANGED <<ipayload, iauthor, icontent, itag, itagobj, iexisted, ioverlap, everOverlap, ncalls>>
    /\ UNCHANGED <<authors, tags, contentTags, clock, gvars, qvars, bvars>>

\* _get_or_create_content: the second Content.objects.get, after the create.
ContentReget(p) ==
    /\ ipc[p] = "content_reget"
    /\ icontent' = [icontent EXCEPT ![p] = ContentPk(ipayload[p].unq_external_id)]
    /\ ipc' = [ipc EXCEPT ![p] = TagLoop(p, 1)]
    /\ UNCHANGED <<ipayload, iauthor, itag, itagobj, iexisted, ioverlap, everOverlap, ncalls, iwrote>>
    /\ UNCHANGED <<tables, clock, gvars, qvars, bvars>>

CurrentTag(p) == ipayload[p].hashtags[itag[p]]

\* _update_tags_mapping: Tag.objects.get(name=tag)
TagGet(p) ==
    /\ ipc[p] = "tag_get"
    /\ IF Found(TagNames, CurrentTag(p))
       THEN /\ itagobj' = [itagobj EXCEPT ![p] = TagPk(CurrentTag(p))]
            /\ ipc' = [ipc EXCEPT ![p] = "ct_get"]
       ELSE /\ ipc' = [ipc EXCEPT ![p] = "tag_create"]
            /\ UNCHANGED itagobj
    /\ UNCHANGED <<ipayload, iauthor, icontent, itag, iexisted, ioverlap, everOverlap, ncalls, iwrote>>
    /\ UNCHANGED <<tables, clock, gvars, qvars, bvars>>

\* _update_tags_mapping: Tag.objects.create(name=tag); a conflict raises out of post.
TagCreate(p) ==
    /\ ipc[p] = "tag_create"
    /\ IF Conflicts(TagNames, CurrentTag(p))
       THEN /\ ipc' = [ipc EXCEPT ![p] = "error"]
            /\ UNCHANGED <<tags, iwrote>>
       ELSE /\ tags' = Append(tags, [name |-> CurrentTag(p)])
            /\ iwrote' = [iwrote EXCEPT ![p] = TRUE]
            /\ ipc' = [ipc EXCEPT ![p] = "tag_reget"]
    /\ UNCHANGED <<ipayload, iauthor, icontent, itag, itagobj, iexisted, ioverlap, everOverlap, ncalls>>
    /\ UNCHANGED <<authors, contents, contentTags, clock, gvars, qvars, bvars>>

\* _update_tags_mapping: the second Tag.objects.get, after the create.
TagReget(p) ==
    /\ ipc[p] = "tag_reget"
    /\ itagobj' = [itagobj EXCEPT ![p] = TagPk(CurrentTag(p))]
    /\ ipc' = [ipc EXCEPT ![p] = "ct_get"]
    /\ UNCHANGED <<ipayload, iauthor, icontent, itag, iexisted, ioverlap, everOverlap, ncalls, iwrote>>
    /\ UNCHANGED <<tables, clock, gvars, qvars, bvars>>

\* _update_tags_mapping: ContentTag.objects.get(tag=..., content=...)
ContentTagGet(p) ==
    /\ ipc[p] = "ct_get"
    /\ IF Found(ContentTagPairs, <<icontent[p], itagobj[p]>>)
       THEN /\ itag' = [itag EXCEPT ![p] = itag[p] + 1]
            /\ ipc' = [ipc EXCEPT ![p] = TagLoop(p, itag[p] + 1)]
       ELSE /\ ipc' = [ipc EXCEPT ![p] = "ct_create"]
            /\ UNCHANGED itag
    /\ UNCHANGED <<ipayload, iauthor, icontent, itagobj, iexisted, ioverlap, everOverlap, ncalls, iwrote>>
    /\ UNCHANGED <<tables, clock, gvars, qvars, bvars>>

\* _update_tags_mapping: ContentTag.objects.create(...); a conflict raises out of post.
ContentTagCreate(p) ==
    /\ ipc[p] = "ct_create"
    /\ IF Conflicts(ContentTagPairs, <<icontent[p], itagobj[p]>>)
       THEN /\ ipc' = [ipc EXCEPT ![p] = "error"]
            /\ UNCHANGED <<contentTags, itag, iwrote>>
       ELSE /\ contentTags' = Append(contentTags, [content |-> icontent[p], tag |-> itagobj[p]])
            /\ iwrote' = [iwrote EXCEPT ![p] = TRUE]
            /\ itag' = [itag EXCEPT ![p] = itag[p] + 1]
            /\ ipc' = [ipc EXCEPT ![p] = TagLoop(p, itag[p] + 1)]
    /\ UNCHANGED <<ipayload, iauthor, icontent, itagobj, iexisted, ioverlap, everOverlap, ncalls>>
    /\ UNCHANGED <<authors, contents, tags, clock, gvars, qvars, bvars>>

\* post: the Response with the serialized {content, author}.
Respond(p) ==
    /\ ipc[p] = "respond"
    /\ ipc' = [ipc EXCEPT ![p] = "ok"]
    /\ iauthor' = [iauthor EXCEPT ![p] = 0]
    /\ itag' = [itag EXCEPT ![p] = 1]
    /\ itagobj' = [itagobj EXCEPT ![p] = 0]
    /\ UNCHANGED <<ipayload, icontent, iexisted, ioverlap, everOverlap, ncalls, iwrote>>
    /\ UNCHANGED <<tables, clock, gvars, qvars, bvars>>

----------------------------------------------------------------------------
(* The ingest specification: concurrent requests against empty tables *)

NoEntry == [present |-> FALSE, truthy |-> FALSE, expires |-> 0]

IngestInit ==
    /\ authors = <<>> /\ contents = <<>> /\ tags = <<>> /\ contentTags = <<>>
    /\ clock = 0
    /\ ipc = [p \in Requests |-> "idle"]
    /\ ipayload = [p \in Requests |-> NoPayload]
    /\ iauthor = [p \in Requests |-> 0]
    /\ icontent = [p \in Requests |-> 0]
    /\ itag = [p \in Requests |-> 1]
    /\ itagobj = [p \in Requests |-> 0]
    /\ iexisted = [p \in Requests |-> FALSE]
    /\ ioverlap = [p \in Requests |-> FALSE]
    /\ everOverlap = FALSE
    /\ ncalls = 0
    /\ iwrote = [p \in Requests |-> FALSE]
    /\ bclock = 0 /\ blast = <<>> /\ bsent = <<>>
    /\ gpc = <<>> /\ glist = <<>> /\ gidx = <<>> /\ gresp = <<>>
    /\ grun = <<>> /\ cache = <<>> /\ calls = {} /\ runs = <<>>
    /\ qreq = <<>> /\ qres = <<>>

IngestNext ==
    \E p \in Requests :
        \/ \E payload \in Payloads : PostStart(p, payload)
        \/ PostRejected(p)
        \/ AuthorGet(p)
        \/ AuthorCreate(p)
        \/ AuthorReget(p)
        \/ ContentGet(p)
        \/ ContentCreate(p)
        \/ ContentReget(p)
        \/ TagGet(p)
        \/ TagCreate(p)
        \/ TagReget(p)
        \/ ContentTagGet(p)
        \/ ContentTagCreate(p)
        \/ Respond(p)

IngestSpec == IngestInit /\ [][IngestNext]_vars

----------------------------------------------------------------------------
(* Claims about the ingest call *)

Counters(row) == <<row.like_count, row.comment_count, row.view_count, row.share_count>>
PayloadCounters(pl) == <<pl.stats.likes, pl.stats.comments, pl.stats.views, pl.stats.shares>>
Range(seq) == { seq[i] : i \in DOMAIN seq }

C2_NoCallEndsInError == \A p \in Requests : ipc[p] # "error"

\* C3: after an ingest call for a content id that already had a row, the row's
\* four counters are those of the call's payload.
C3_CountersOverwritten ==
    \A p \in Requests :
        (ipc[p] = "ok" /\ iexisted[p] /\ ~ioverlap[p]) =>
            Counters(contents[icontent[p]]) = PayloadCounters(ipayload[p])

\* C4: as long as no two ingest calls have overlapped, no call fails with a
\* duplicate key, and there is exactly one Author, Content, Tag and ContentTag row
\* per key that was ingested.
C4_SequentialIngestIdempotent ==
    ~everOverlap =>
        /\ Cardinality(AuthorIds) = Len(authors)
        /\ Cardinality(ContentIds) = Len(contents)
        /\ Cardinality(TagNames) = Len(tags)
        /\ Cardinality(ContentTagPairs) = Len(contentTags)
        /\ \A p \in Requests :
              /\ ipc[p] # "error"
              /\ ipc[p] = "ok" =>
                    /\ ipayload[p].author.unique_external_id \in AuthorIds
                    /\ ipayload[p].unq_external_id \in ContentIds
                    /\ contents[icontent[p]].unique_id = ipayload[p].unq_external_id
                    /\ \A t \in Range(ipayload[p].hashtags) :
                          /\ t \in TagNames
                          /\ <<icontent[p], TagPk(t)>> \in ContentTagPairs

\* The payload with the tags x, x, y was ingested a second time, alone.
C4_Witness ==
    \E p \in Requests :
        /\ ipc[p] = "ok" /\ ~everOverlap /\ iexisted[p]
        /\ ipayload[p].hashtags = <<"x", "x", "y">>
        /\ Len(tags) = 2 /\ Len(contentTags) = 2

\* C15: when a storage operation fails partway through an ingest call, none of
\* the rows the call wrote before remain in storage (a row, once written, stays:
\* so the failed call has written none).
C15_AllOrNothing ==
    \A p \in Requests : ipc[p] = "error" => ~iwrote[p]

\* C16: an ingest call whose payload fails validation is rejected before any
\* mutation: the step leaves the four tables as they were, and the call has
\* written no row.
C16_RejectedWritesNothing ==
    /\ [] (\A p \in Requests : ipc[p] = "rejected" => ~iwrote[p])
    /\ [][ (\E p \in Requests : ipc' = [ipc EXCEPT ![p] = "rejected"] /\ ncalls' # ncalls)
              => tables' = tables ]_vars

\* A call was rejected after another call had written its rows.
C16_Witness ==
    \E p, q \in Requests :
        /\ ipc[p] = "rejected" /\ ipc[q] = "ok"
        /\ iwrote[q]
        /\ Len(authors) = 1 /\ Len(contents) = 1

----------------------------------------------------------------------------
(* generate_comment: the enrichment gate *)

HalfDay == 12 * 60 * 60
Day == 24 * 60 * 60

\* contents[:10]
RecentN == 10

\* cache.set(..., timeout=60 * 60 * 24)
CacheTimeout == 60 * 60 * 24

\* response.status_code == 200
StatusOk == 200

\* What requests.post can produce: a response (a status, and a body that parses
\* to a truthy JSON value, to a falsy one such as {} or null, or not at all),
\* or an exception (connection error, timeout).
Outcomes ==
    [kind : {"response"}, status : {StatusOk}, body : {"truthy", "falsy", "invalid"}]
    \cup { [kind |-> "response", status |-> 500, body |-> "truthy"],
           [kind |-> "raised", status |-> 0, body |-> "invalid"] }

NoResponse == [kind |-> "none", status |-> 0, body |-> "invalid"]

\* The primary keys of the rows in `pks`, newest timestamp first.
RECURSIVE NewestFirst(_)
NewestFirst(pks) ==
    IF pks = {} THEN <<>>
    ELSE LET top == CHOOSE i \in pks : \A j \in pks : contents[j].timestamp <= contents[i].timestamp
         IN <<top>> \o NewestFirst(pks \ {top})

\* The queryset without the slice: every content, newest first.
LastContentsAll == NewestFirst(DOMAIN contents)

\* Content.objects.select_related("author").all().order_by("-timestamp")[:10]
LastContents ==
    LET ordered == NewestFirst(DOMAIN contents)
    IN SubSeq(ordered, 1, IF Len(ordered) < RecentN THEN Len(ordered) ELSE RecentN)

\* cache.get(key) returns the stored value: the entry is there and has not expired.
Live(c) == cache[c].present /\ clock < cache[c].expires

\* value = cache.get(f"comment-{content.id}"); if value:
CacheHit(c) == Live(c) /\ cache[c].truthy

\* A gate that writes the cache entry whatever the status.
IsSuccessAlways(resp) == TRUE

\* if response.status_code == 200:
IsSuccess(resp) == resp.status = StatusOk

WorkerFree(w) == gpc[w] \in {"idle", "returned", "raised"}
FinishedRuns == { r \in DOMAIN runs : runs[r].state # "running" }
Uncached(list) == { list[i] : i \in { k \in DOMAIN list : ~Live(list[k]) } }

\* The task ends, by a return or by an exception: its locals are gone.
GateEnd(w, how) ==
    /\ gpc' = [gpc EXCEPT ![w] = how]
    /\ runs' = [runs EXCEPT ![grun[w]].state = how]
    /\ glist' = [glist EXCEPT ![w] = <<>>]
    /\ gidx' = [gidx EXCEPT ![w] = 1]
    /\ gresp' = [gresp EXCEPT ![w] = NoResponse]

\* The loop goes on to the next content, or the task returns.
GateAdvance(w) ==
    IF gidx[w] < Len(glist[w])
    THEN /\ gidx' = [gidx EXCEPT ![w] = gidx[w] + 1]
         /\ gpc' = [gpc EXCEPT ![w] = "cache_get"]
         /\ gresp' = [gresp EXCEPT ![w] = NoResponse]
         /\ UNCHANGED <<runs, glist>>
    ELSE GateEnd(w, "returned")

\* The task starts: the queryset is evaluated when the loop begins. The workers
\* are interchangeable: the task goes to the first free one.
GateStart(w) ==
    /\ WorkerFree(w)
    /\ \A v \in Workers : v < w => ~WorkerFree(v)
    /\ Len(runs) < MaxRuns
    /\ LET list == LastContents
       IN IF list = <<>>
          THEN /\ gpc' = [gpc EXCEPT ![w] = "returned"]
               /\ runs' = Append(runs, [after |-> FinishedRuns, miss |-> {}, state |-> "returned"])
               /\ UNCHANGED glist
          ELSE /\ gpc' = [gpc EXCEPT ![w] = "cache_get"]
               /\ runs' = Append(runs, [after |-> FinishedRuns, miss |-> Uncached(list),
                                        state |-> "running"])
               /\ glist' = [glist EXCEPT ![w] = list]
    /\ grun' = [grun EXCEPT ![w] = Len(runs) + 1]
    /\ UNCHANGED <<gidx, gresp, cache, calls, tables, clock, ivars, qvars, bvars>>

\* value = cache.get(...); if value: return
GateCacheGet(w) ==
    /\ gpc[w] = "cache_get"
    /\ IF CacheHit(glist[w][gidx[w]])
       THEN GateEnd(w, "returned")
       ELSE /\ gpc' = [gpc EXCEPT ![w] = "post"]
            /\ UNCHANGED <<runs, glist, gidx, gresp>>
    /\ UNCHANGED <<grun, cache, calls, tables, clock, ivars, qvars, bvars>>

\* The history keeps MaxPosts calls for NumGateContents contents, and one more
\* for every further content.
PostLimit == MaxPosts + Len(contents) - NumGateContents

\* response = requests.post(url, json=body, headers=headers); an exception leaves the task.
\* (PostLimit caps the history the model keeps.)
GatePost(w, outcome) ==
    /\ gpc[w] = "post"
    /\ Cardinality(calls) < PostLimit
    /\ calls' = calls \cup { [cid |-> glist[w][gidx[w]], run |-> grun[w], time |-> clock,
                              kind |-> outcome.kind, status |-> outcome.status] }
    /\ IF outcome.kind = "raised"
       THEN GateEnd(w, "raised")
       ELSE /\ gpc' = [gpc EXCEPT ![w] = "check"]
            /\ gresp' = [gresp EXCEPT ![w] = outcome]
            /\ UNCHANGED <<runs, glist, gidx>>
    /\ UNCHANGED <<grun, cache, tables, clock, ivars, qvars, bvars>>

\* if response.status_code == 200: cache.set(key, response.json(), timeout=...);
\* response.json() raises on a body that is not JSON.
GateCheck(w) ==
    /\ gpc[w] = "check"
    /\ IF IsSuccess(gresp[w])
       THEN IF gresp[w].body = "invalid"
            THEN /\ GateEnd(w, "raised")
                 /\ UNCHANGED cache
            ELSE /\ cache' = [cache EXCEPT ![glist[w][gidx[w]]] =
                                 [present |-> TRUE,
                                  truthy |-> gresp[w].body = "truthy",
                                  expires |-> clock + CacheTimeout]]
                 /\ GateAdvance(w)
       ELSE /\ GateAdvance(w)
            /\ UNCHANGED cache
    /\ UNCHANGED <<grun, calls, tables, clock, ivars, qvars, bvars>>

\* Time passes, in steps of half a day: against them a run of the task takes no
\* time, so the clock moves between the statements of no run.
Tick ==
    /\ \A w \in Workers : WorkerFree(w)
    /\ clock + HalfDay <= NumGateContents + MaxHalfDays * HalfDay
    /\ clock' = clock + HalfDay
    /\ UNCHANGED <<tables, ivars, gvars, qvars, bvars>>

----------------
(* The gate specification: concurrent workers over ingested contents *)

GateAuthors == << [unique_id |-> "a1", username |-> "bob", followers |-> 0] >>

\* Content i was ingested at second i.
GateContents ==
    [ i \in 1..NumGateContents |->
        [ unique_id |-> <<"c", i>>, author |-> 1, title |-> <<"H", "e", "l", "l", "o">>,
          like_count |-> 10, comment_count |-> 5, view_count |-> 100, share_count |-> 5,
          timestamp |-> i ] ]

GateInit ==
    /\ authors = GateAuthors /\ contents = GateContents /\ tags = <<>> /\ contentTags = <<>>
    /\ clock = NumGateContents
    /\ ipc = [p \in Requests |-> "idle"]
    /\ ipayload = [p \in Requests |-> NoPayload]
    /\ iauthor = [p \in Requests |-> 0]
    /\ icontent = [p \in Requests |-> 0]
    /\ itag = [p \in Requests |-> 1]
    /\ itagobj = [p \in Requests |-> 0]
    /\ iexisted = [p \in Requests |-> FALSE]
    /\ ioverlap = [p \in Requests |-> FALSE]
    /\ everOverlap = FALSE
    /\ ncalls = 0
    /\ iwrote = [p \in Requests |-> FALSE]
    /\ bclock = 0 /\ blast = <<>> /\ bsent = <<>>
    /\ gpc = [w \in Workers |-> "idle"]
    /\ glist = [w \in Workers |-> <<>>]
    /\ gidx = [w \in Workers |-> 1]
    /\ gresp = [w \in Workers |-> NoResponse]
    /\ grun = [w \in Workers |-> 0]
    /\ cache = [c \in DOMAIN GateContents |-> NoEntry]
    /\ calls = {}
    /\ runs = <<>>
    /\ qreq = <<>> /\ qres = <<>>

GateNext ==
    \/ \E w \in Workers :
          \/ GateStart(w)
          \/ GateCacheGet(w)
          \/ \E outcome \in Outcomes : GatePost(w, outcome)
          \/ GateCheck(w)
    \/ Tick

GateSpec == GateInit /\ [][GateNext]_vars

----------------
(* The gate over more contents than it reads: one run follows earlier runs that
   found the Content table empty *)

RecentContents ==
    [ i \in 1..NumRecentContents |->
        [ unique_id |-> <<"c", i>>, author |-> 1, title |-> <<"H", "e", "l", "l", "o">>,
          like_count |-> 10, comment_count |-> 5, view_count |-> 100, share_count |-> 5,
          timestamp |-> i ] ]

\* The records of the runs that found no content.
EmptyRuns == [ r \in 1..(MaxRuns - 1) |-> [after |-> 1..(r - 1), miss |-> {}, state |-> "returned"] ]

RecentInit ==
    /\ authors = GateAuthors /\ contents = RecentContents /\ tags = <<>> /\ contentTags = <<>>
    /\ clock = NumRecentContents
    /\ ipc = [p \in Requests |-> "idle"]
    /\ ipayload = [p \in Requests |-> NoPayload]
    /\ iauthor = [p \in Requests |-> 0]
    /\ icontent = [p \in Requests |-> 0]
    /\ itag = [p \in Requests |-> 1]
    /\ itagobj = [p \in Requests |-> 0]
    /\ iexisted = [p \in Requests |-> FALSE]
    /\ ioverlap = [p \in Requests |-> FALSE]
    /\ everOverlap = FALSE
    /\ ncalls = 0
    /\ iwrote = [p \in Requests |-> FALSE]
    /\ bclock = 0 /\ blast = <<>> /\ bsent = <<>>
    /\ gpc = [w \in Workers |-> "idle"]
    /\ glist = [w \in Workers |-> <<>>]
    /\ gidx = [w \in Workers |-> 1]
    /\ gresp = [w \in Workers |-> NoResponse]
    /\ grun = [w \in Workers |-> 0]
    /\ cache = [c \in DOMAIN RecentContents |-> NoEntry]
    /\ calls = {}
    /\ runs = EmptyRuns
    /\ qreq = <<>> /\ qres = <<>>

\* The statements of the one run; no time passes during it.
RecentNext ==
    \E w \in Workers :
        \/ GateStart(w)
        \/ GateCacheGet(w)
        \/ \E outcome \in Outcomes : GatePost(w, outcome)
        \/ GateCheck(w)

RecentSpec == RecentInit /\ [][RecentNext]_vars

----------------------------------------------------------------------------
(* Claims about the enrichment gate *)

Succeeded(a) == a.kind = "response" /\ a.status = 200

\* Two runs overlap when neither had finished when the other started.
Overlap(r1, r2) == r1 # r2 /\ r1 \notin runs[r2].after /\ r2 \notin runs[r1].after

\* C5: once the collaborator has returned a success response for a content id, no
\* later, non-overlapping run of the gate within the following 24 hours invokes
\* the collaborator for that content id again (stated for a success in a run that
\* ended by returning).
C5_NoRepeatWithinWindow ==
    \A a, b \in calls :
        ~ ( /\ Succeeded(a)
            /\ runs[a.run].state = "returned"
            /\ a.cid = b.cid
            /\ a.run \in runs[b.run].after
            /\ b.time < a.time + Day )

\* C6: when runs of the gate overlap, the collaborator is still invoked
\* successfully at most once per content id within the 24-hour window.
C6_OverlapAtMostOnce ==
    \A a, b \in calls :
        ~ ( /\ Succeeded(a) /\ Succeeded(b)
            /\ a.cid = b.cid
            /\ Overlap(a.run, b.run)
            /\ a.time < b.time + Day /\ b.time < a.time + Day )

\* C7: a run of the gate invokes the collaborator for every content of its list
\* that had no cache entry when the run started, whatever entries the other
\* contents of the list have (stated for a run that overlaps no other run and
\* ends by returning).
C7_UncachedInvoked ==
    \A r \in DOMAIN runs :
        (runs[r].state = "returned" /\ \A r2 \in DOMAIN runs : ~Overlap(r, r2)) =>
            \A c \in runs[r].miss : \E a \in calls : a.run = r /\ a.cid = c

\* C8: a collaborator call that raises (connection error, timeout) does not
\* propagate out of the task: the run goes on with its remaining contents.
C8_FailureDoesNotEscape ==
    \A a \in calls : a.kind = "raised" => runs[a.run].state # "raised"

\* C9: a cache entry exists for a content id only if the collaborator returned a
\* success (200) response for it within the last 24 hours: a non-success or failed
\* call writes none.
C9_EntryOnlyAfterSuccess ==
    \A c \in DOMAIN cache :
        Live(c) => \E a \in calls : Succeeded(a) /\ a.cid = c /\ clock - a.time < Day

\* One content has a cache entry after a success, while a call for another
\* content ended without success and left no entry.
C9_Witness ==
    \E c, d \in DOMAIN cache :
        /\ Live(c)
        /\ ~cache[d].present
        /\ \E a \in calls : a.cid = d /\ ~Succeeded(a)
        /\ \A w \in Workers : WorkerFree(w)

----------------------------------------------------------------------------
(* app.conf.beat_schedule: the periodic schedule *)

\* The tasks contents/tasks.py registers.
PipelineTasks ==
    { "contents.tasks.pull_and_store_content",
      "contents.tasks.generate_comment",
      "contents.tasks.post_comment" }

\* The dict display assigned to app.conf.beat_schedule, entry by entry as written
\* (schedule: the timedelta in seconds).
BeatScheduleLiteral ==
    << [key |-> "task1", task |-> "contents.tasks.pull_and_store_content", schedule |-> 5],
       [key |-> "task2", task |-> "contents.tasks.generate_comment", schedule |-> 5],
       [key |-> "task2", task |-> "contents.tasks.post_comment", schedule |-> 30] >>

\* The dict a display evaluates to: for a key written twice, the later value.
DictOf(display) ==
    [ k \in { display[i].key : i \in DOMAIN display } |->
        LET last == CHOOSE i \in DOMAIN display :
                        /\ display[i].key = k
                        /\ \A j \in DOMAIN display : display[j].key = k => j <= i
        IN [task |-> display[last].task, schedule |-> display[last].schedule] ]

beat_schedule == DictOf(BeatScheduleLiteral)

\* The entry is due: its period has passed since it was last sent.
IsDue(k) == bclock - blast[k] >= beat_schedule[k].schedule

\* The scheduler sends the task of a due entry.
BeatSend(k) ==
    /\ IsDue(k)
    /\ blast' = [blast EXCEPT ![k] = bclock]
    /\ bsent' = [bsent EXCEPT ![beat_schedule[k].task] = @ + 1]
    /\ UNCHANGED <<bclock, tables, clock, ivars, gvars, qvars>>

\* A second passes; the scheduler sends what is due before it sleeps.
BeatTick ==
    /\ \A k \in DOMAIN beat_schedule : ~IsDue(k)
    /\ bclock < MaxBeatSeconds
    /\ bclock' = bclock + 1
    /\ UNCHANGED <<blast, bsent, tables, clock, ivars, gvars, qvars>>

\* The scheduler starts: every entry counts as last sent now.
BeatInit ==
    /\ bclock = 0
    /\ blast = [k \in DOMAIN beat_schedule |-> 0]
    /\ bsent = [t \in PipelineTasks |-> 0]
    /\ authors = <<>> /\ contents = <<>> /\ tags = <<>> /\ contentTags = <<>>
    /\ clock = 0
    /\ ipc = [p \in Requests |-> "idle"]
    /\ ipayload = [p \in Requests |-> NoPayload]
    /\ iauthor = [p \in Requests |-> 0]
    /\ icontent = [p \in Requests |-> 0]
    /\ itag = [p \in Requests |-> 1]
    /\ itagobj = [p \in Requests |-> 0]
    /\ iexisted = [p \in Requests |-> FALSE]
    /\ ioverlap = [p \in Requests |-> FALSE]
    /\ everOverlap = FALSE
    /\ ncalls = 0
    /\ iwrote = [p \in Requests |-> FALSE]
    /\ gpc = <<>> /\ glist = <<>> /\ gidx = <<>> /\ gresp = <<>>
    /\ grun = <<>> /\ cache = <<>> /\ calls = {} /\ runs = <<>>
    /\ qreq = <<>> /\ qres = <<>>

BeatNext ==
    \/ \E k \in DOMAIN beat_schedule : BeatSend(k)
    \/ BeatTick

BeatSpec == BeatInit /\ [][BeatNext]_vars

\* The longest period of the schedule as written.
LongestPeriod == 30

\* C19: the schedule has an entry for each of the three pipeline tasks: once the
\* longest period has passed since the scheduler started, each task, and so
\* contents.tasks.generate_comment, has been sent at least once.
C19_EveryTaskScheduled ==
    bclock > LongestPeriod => \A t \in PipelineTasks : bsent[t] > 0

----------------------------------------------------------------------------
(* The read side: _build_filters and ContentStatsAPIView.get *)

\* A query parameter is the empty set when absent, and {value} when given.
Absent == {}
Value(param) == CHOOSE v \in param : TRUE

LowerChar(ch) ==
    CASE ch = "H" -> "h"
      [] ch = "I" -> "i"
      [] ch = "P" -> "p"
      [] OTHER -> ch
Lower(str) == [i \in DOMAIN str |-> LowerChar(str[i])]

\* title__icontains: a case-insensitive substring match.
IContains(str, sub) ==
    \E k \in 0..(Len(str) - Len(sub)) :
        \A i \in 1..Len(sub) : Lower(str)[k + i] = Lower(sub)[i]

\* int(timeframe): the text of a decimal number, as the query string carries it.
Digits == <<"0", "1", "2", "3", "4", "5", "6", "7", "8", "9">>
DigitValue(ch) == (CHOOSE k \in DOMAIN Digits : Digits[k] = ch) - 1

\* int(text) succeeds (otherwise it raises ValueError).
IsInt(text) == Len(text) > 0 /\ \A i \in DOMAIN text : \E k \in DOMAIN Digits : Digits[k] = text[i]

RECURSIVE ToInt(_)
ToInt(text) ==
    IF Len(text) = 0 THEN 0
    ELSE 10 * ToInt(SubSeq(text, 1, Len(text) - 1)) + DigitValue(text[Len(text)])

\* _build_filters raises: timeframe is given and int(timeframe) fails.
FiltersRaise(params) == params.timeframe # Absent /\ ~IsInt(Value(params.timeframe))

\* The number of rows the join with ContentTag yields for content c and tag t.
TagJoin(c, t) == Cardinality({ k \in DOMAIN contentTags :
                                  contentTags[k].content = c /\ contentTags[k].tag = t })

\* A filter builder that joins the given filters by OR: content c is selected
\* when it passes any of them.
BuildFiltersAny(params, c) ==
    LET row == contents[c]
        byAuthorId == params.author_id # Absent /\ row.author = Value(params.author_id)
        byUsername == params.author_username # Absent
                      /\ authors[row.author].username = Value(params.author_username)
        byTimeframe == params.timeframe # Absent
                       /\ row.timestamp >= clock - ToInt(Value(params.timeframe)) * Day
        byTitle == params.title # Absent /\ IContains(row.title, Value(params.title))
        byTag == params.tag_id # Absent /\ TagJoin(c, Value(params.tag_id)) > 0
        none == \A name \in {"author_id", "author_username", "timeframe", "tag_id", "title"} :
                    params[name] = Absent
    IN IF none \/ byAuthorId \/ byUsername \/ byTimeframe \/ byTitle \/ byTag THEN 1 ELSE 0

\* _build_filters: how many times content c is in the filtered queryset.
BuildFilters(params, c) ==
    LET row == contents[c]
        byAuthorId == params.author_id = Absent \/ row.author = Value(params.author_id)
        byUsername == params.author_username = Absent
                      \/ authors[row.author].username = Value(params.author_username)
        byTimeframe == params.timeframe = Absent
                       \/ row.timestamp >= clock - ToInt(Value(params.timeframe)) * Day
        byTitle == params.title = Absent \/ IContains(row.title, Value(params.title))
    IN IF byAuthorId /\ byUsername /\ byTimeframe /\ byTitle
       THEN IF params.tag_id = Absent THEN 1 ELSE TagJoin(c, Value(params.tag_id))
       ELSE 0

\* ContentStatsAPIView.get: filters = {}; if tag: filters["contentag__tag__name"] = tag
StatsFilters(params, c) ==
    IF params.tag = Absent THEN 1
    ELSE Cardinality({ k \in DOMAIN contentTags :
                          contentTags[k].content = c
                          /\ tags[contentTags[k].tag].name = Value(params.tag) })

\* The value of a column, or of author__followers, for content c.
Field(c, name) ==
    CASE name = "like_count" -> contents[c].like_count
      [] name = "share_count" -> contents[c].share_count
      [] name = "view_count" -> contents[c].view_count
      [] name = "comment_count" -> contents[c].comment_count
      [] name = "author__followers" -> authors[contents[c].author].followers
      [] name = "id" -> 1

\* Sum(column), or Count("id"), over the rows of a queryset; mult[c] is how many
\* times content c is in it. Over the first n contents.
RECURSIVE SumRows(_, _, _)
SumRows(mult, name, n) ==
    IF n = 0 THEN 0 ELSE SumRows(mult, name, n - 1) + mult[n] * Field(n, name)

Total(mult, name) == SumRows(mult, name, Len(contents))

ServerError ==
    [ status |-> 500, total_likes |-> 0, total_shares |-> 0, total_views |-> 0,
      total_comments |-> 0, total_followers |-> 0, total_contents |-> 0,
      total_engagement |-> 0, total_engagement_rate |-> <<0, 1>> ]

\* ContentStatsAPIView.get. Sum over no rows is None, and None + None raises;
\* the rate is the fraction <<numerator, denominator>>.
StatsResponse(params) ==
    LET mult == [c \in DOMAIN contents |-> StatsFilters(params, c)]
        likes == Total(mult, "like_count")
        shares == Total(mult, "share_count")
        views == Total(mult, "view_count")
        comments == Total(mult, "comment_count")
        engagement == likes + shares + comments
    IN IF Total(mult, "id") = 0
       THEN ServerError
       ELSE [ status |-> 200,
              total_likes |-> likes,
              total_shares |-> shares,
              total_views |-> views,
              total_comments |-> comments,
              total_followers |-> Total(mult, "author__followers"),
              total_contents |-> Total(mult, "id"),
              total_engagement |-> engagement,
              total_engagement_rate |-> IF views # 0 THEN <<engagement, views>> ELSE <<0, 1>> ]

\* GET on the Stats API. A read changes nothing it reads: one request per
\* behaviour covers them all.
StatsGet(params) ==
    /\ qreq.api = "none"
    /\ qreq' = [api |-> "stats", params |-> params]
    /\ qres' = StatsResponse(params)
    /\ UNCHANGED <<tables, clock, ivars, gvars, bvars>>

----------------------------------------------------------------------------
(* The read side: ContentAPIView.get, with CustomPagination *)

\* CustomPagination
PageSize == 10
MaxPageSize == 100

\* get_page_size: items_per_page as a positive integer, cut off at max_page_size;
\* absent or not positive, the default page_size.
GetPageSize(size) ==
    IF size = Absent \/ Value(size) < 1 THEN PageSize
    ELSE IF Value(size) > MaxPageSize THEN MaxPageSize ELSE Value(size)

\* page_number = request.query_params.get("page", 1)
GetPageNumber(page) == IF page = Absent THEN 1 ELSE Value(page)

\* Paginator.num_pages: ceil(count / per_page), and one (empty) page for no rows.
NumPages(count, size) == IF count = 0 THEN 1 ELSE (count + size - 1) \div size

\* Paginator.validate_number: otherwise EmptyPage, which paginate_queryset
\* turns into NotFound.
ValidPage(number, count, size) == number >= 1 /\ number <= NumPages(count, size)

\* The orders in which storage can return the filtered queryset: the view asks
\* for none (no order_by), so any order of the matching rows.
Orders(params) ==
    IF FiltersRaise(params) THEN { <<>> }
    ELSE LET mult == [c \in DOMAIN contents |-> BuildFilters(params, c)]
             count == Total(mult, "id")
         IN { o \in [1..count -> DOMAIN contents] :
                 \A c \in DOMAIN contents : Cardinality({ i \in 1..count : o[i] = c }) = mult[c] }

\* Page.object_list: queryset[bottom:top]
PageSlice(ordered, number, size) ==
    LET bottom == (number - 1) * size
        top == IF bottom + size > Len(ordered) THEN Len(ordered) ELSE bottom + size
    IN SubSeq(ordered, bottom + 1, top)

\* A total engagement that counts the views too.
TotalEngagementAll(data) ==
    data.like_count + data.comment_count + data.share_count + data.view_count

\* _insert_additional_data_point: total_engagement
TotalEngagement(data) == data.like_count + data.comment_count + data.share_count

\* _insert_additional_data_point: engagement_rate, the fraction <<numerator, denominator>>.
EngagementRate(total, view_count) == IF view_count > 0 THEN <<total, view_count>> ELSE <<0, 1>>

\* ContentSerializer: the fields of the Content row the envelope carries.
Serialized(c) ==
    [ id |-> c,
      like_count |-> contents[c].like_count,
      comment_count |-> contents[c].comment_count,
      view_count |-> contents[c].view_count,
      share_count |-> contents[c].share_count ]

\* One envelope after _insert_additional_data_point (the tag names as a set).
Item(c) ==
    LET data == Serialized(c)
        total_engagement == TotalEngagement(data)
    IN [ id |-> data.id,
         like_count |-> data.like_count,
         comment_count |-> data.comment_count,
         view_count |-> data.view_count,
         share_count |-> data.share_count,
         engagement_rate |-> EngagementRate(total_engagement, data.view_count),
         total_engagement |-> total_engagement,
         tags |-> { tags[contentTags[k].tag].name :
                       k \in { j \in DOMAIN contentTags : contentTags[j].content = c } } ]

\* ContentAPIView.get: an uncaught ValueError is a 500, NotFound a 404.
ListResponse(params, page, size, order) ==
    IF FiltersRaise(params) THEN [status |-> 500, items |-> <<>>]
    ELSE IF ~ValidPage(GetPageNumber(page), Len(order), GetPageSize(size))
         THEN [status |-> 404, items |-> <<>>]
         ELSE LET slice == PageSlice(order, GetPageNumber(page), GetPageSize(size))
              IN [status |-> 200, items |-> [i \in DOMAIN slice |-> Item(slice[i])]]

\* GET on the Query API (it reads no `tag` parameter); `order` is the order
\* storage returns the rows in.
ListGet(params, page, size) ==
    /\ qreq.api = "none"
    /\ params.tag = Absent
    /\ \E order \in Orders(params) :
          /\ qreq' = [api |-> "list", params |-> params, page |-> page, size |-> size,
                      order |-> order]
          /\ qres' = ListResponse(params, page, size, order)
    /\ UNCHANGED <<tables, clock, ivars, gvars, bvars>>

----------------------------------------------------------------------------
(* The read specification: requests against stored tables *)

MaxQueryContents == 2

QueryNow == 10 * Day

QueryAuthors ==
    << [unique_id |-> "a1", username |-> "bob", followers |-> 3],
       [unique_id |-> "a2", username |-> "amy", followers |-> 5] >>

QueryTags == << [name |-> "x"], [name |-> "y"] >>

\* What a Content row can hold, apart from its unique_id: one ingested 8 days
\* ago and two ingested an hour ago.
QueryRows ==
    { [author |-> 1, title |-> <<"H", "i", "p">>, like_count |-> 10, comment_count |-> 5,
       view_count |-> 100, share_count |-> 5, timestamp |-> QueryNow - 8 * Day],
      [author |-> 1, title |-> <<"y", "o">>, like_count |-> 1, comment_count |-> 0,
       view_count |-> 0, share_count |-> 2, timestamp |-> QueryNow - 3600],
      [author |-> 2, title |-> <<"h", "i">>, like_count |-> 3, comment_count |-> 4,
       view_count |-> 50, share_count |-> 6, timestamp |-> QueryNow - 3600] }

WithId(row, i) ==
    [ unique_id |-> <<"c", i>>, author |-> row.author, title |-> row.title,
      like_count |-> row.like_count, comment_count |-> row.comment_count,
      view_count |-> row.view_count, share_count |-> row.share_count,
      timestamp |-> row.timestamp ]

\* The ContentTag rows of a set of (content, tag) pairs, in key order.
RECURSIVE PairsToRows(_)
PairsToRows(pairs) ==
    IF pairs = {} THEN <<>>
    ELSE LET m == CHOOSE x \in pairs :
                    \A y \in pairs : x[1] < y[1] \/ (x[1] = y[1] /\ x[2] <= y[2])
         IN <<[content |-> m[1], tag |-> m[2]]>> \o PairsToRows(pairs \ {m})

QueryParams ==
    [ author_id : {Absent, {1}, {2}},
      author_username : {Absent, {"bob"}},
      timeframe : {Absent, {<<"7">>}, {<<"7", "d">>}},
      tag_id : {Absent, {1}},
      title : {Absent, {<<"h", "I">>}},
      tag : {Absent, {"x"}} ]

QueryInit ==
    /\ authors = QueryAuthors
    /\ tags = QueryTags
    /\ \E n \in 0..MaxQueryContents :
          /\ \E rows \in [1..n -> QueryRows] : contents = [i \in 1..n |-> WithId(rows[i], i)]
          /\ \E pairs \in SUBSET ((1..n) \X (1..Len(QueryTags))) : contentTags = PairsToRows(pairs)
    /\ clock = QueryNow
    /\ ipc = [p \in Requests |-> "idle"]
    /\ ipayload = [p \in Requests |-> NoPayload]
    /\ iauthor = [p \in Requests |-> 0]
    /\ icontent = [p \in Requests |-> 0]
    /\ itag = [p \in Requests |-> 1]
    /\ itagobj = [p \in Requests |-> 0]
    /\ iexisted = [p \in Requests |-> FALSE]
    /\ ioverlap = [p \in Requests |-> FALSE]
    /\ everOverlap = FALSE
    /\ ncalls = 0
    /\ iwrote = [p \in Requests |-> FALSE]
    /\ bclock = 0 /\ blast = <<>> /\ bsent = <<>>
    /\ gpc = <<>> /\ glist = <<>> /\ gidx = <<>> /\ gresp = <<>>
    /\ grun = <<>> /\ cache = <<>> /\ calls = {} /\ runs = <<>>
    /\ qreq = [api |-> "none", params |-> [author_id |-> Absent, author_username |-> Absent,
                                            timeframe |-> Absent, tag_id |-> Absent,
                                            title |-> Absent, tag |-> Absent]]
    /\ qres = ServerError

\* page and items_per_page of the Query API
QueryPages == {Absent, {2}}
QuerySizes == {Absent, {1}}

\* The one read of a behaviour, with its parameters.
StatsRequest ==
    /\ qreq.api = "none"
    /\ \E params \in QueryParams : StatsGet(params)

ListRequest ==
    /\ qreq.api = "none"
    /\ \E params \in QueryParams, page \in QueryPages, size \in QuerySizes :
          ListGet(params, page, size)

QueryNext == StatsRequest \/ ListRequest

QuerySpec == QueryInit /\ [][QueryNext]_vars

----------------------------------------------------------------------------
(* Claims about the read side *)

\* C10: for every combination of valid author_id, author_username, timeframe,
\* tag_id and title, the totals of the Stats API are the sums of the per-item fields over the
\* contents _build_filters selects for the same parameters.
C10_StatsMatchFilteredSet ==
    (qreq.api = "stats" /\ qreq.params.tag = Absent /\ qres.status = 200
        /\ ~FiltersRaise(qreq.params)) =>
        LET selected == [c \in DOMAIN contents |-> BuildFilters(qreq.params, c)]
        IN /\ qres.total_likes = Total(selected, "like_count")
           /\ qres.total_shares = Total(selected, "share_count")
           /\ qres.total_views = Total(selected, "view_count")
           /\ qres.total_comments = Total(selected, "comment_count")
           /\ qres.total_followers = Total(selected, "author__followers")
           /\ qres.total_contents = Total(selected, "id")

\* C11: for every filtered set whose total view count is zero, the empty set
\* included, the Stats API answers normally with total_engagement_rate = 0.
C11_ZeroViewsRateZero ==
    qreq.api = "stats" =>
        LET mult == [c \in DOMAIN contents |-> StatsFilters(qreq.params, c)]
        IN Total(mult, "view_count") = 0 =>
              /\ qres.status = 200
              /\ qres.total_engagement_rate[1] = 0

NoParams ==
    [ author_id |-> Absent, author_username |-> Absent, timeframe |-> Absent,
      tag_id |-> Absent, title |-> Absent, tag |-> Absent ]
FilterNames == {"author_id", "author_username", "timeframe", "tag_id", "title"}

\* The parameters with the one filter `name` kept and every other one absent.
Only(params, name) == [NoParams EXCEPT ![name] = params[name]]

\* The contents a request with these parameters selects.
Matching(params) == { c \in DOMAIN contents : BuildFilters(params, c) > 0 }

ItemIds(items) == { items[i].id : i \in DOMAIN items }

\* The response holds the whole result set (the first page, and no row is cut off).
WholeSet == GetPageNumber(qreq.page) = 1 /\ Len(qreq.order) <= GetPageSize(qreq.size)

\* C12: for every subset of author_id, author_username, timeframe, tag_id and title
\* given to the Query API, the result set is the intersection of the result sets
\* of each given filter alone (an absent parameter selects every content), and the
\* request changes no stored row.
C12_FiltersConjoin ==
    /\ [] ( (qreq.api = "list" /\ qres.status = 200 /\ WholeSet) =>
               ItemIds(qres.items) =
                   { c \in DOMAIN contents :
                        \A name \in FilterNames : c \in Matching(Only(qreq.params, name)) } )
    /\ [][ qreq'.api = "list" => tables' = tables ]_vars

\* A request with two filters, which alone select different, non-empty sets, got
\* its whole result set, and it is not what the first filter alone selects.
C12_Witness ==
    /\ qreq.api = "list" /\ qres.status = 200 /\ WholeSet
    /\ \E m, n \in FilterNames :
          /\ qreq.params[m] # Absent /\ qreq.params[n] # Absent
          /\ Matching(Only(qreq.params, m)) # Matching(Only(qreq.params, n))
          /\ Matching(Only(qreq.params, m)) # {}
          /\ Matching(Only(qreq.params, n)) # {}
          /\ ItemIds(qres.items) # Matching(Only(qreq.params, m))

CeilDiv(a, b) == (a + b - 1) \div b

\* C13: a request for a page number greater than ceil(T/p), for page size p and T
\* matching contents, is answered with an empty list, not with an error.
C13_PageBeyondLastIsEmpty ==
    (qreq.api = "list" /\ ~FiltersRaise(qreq.params)
        /\ GetPageNumber(qreq.page) > CeilDiv(Len(qreq.order), GetPageSize(qreq.size))) =>
        (qres.status = 200 /\ qres.items = <<>>)

\* The matching contents, newest ingestion timestamp first.
NewestMatching(params) == NewestFirst(Matching(params))

\* C14: page k of the Query API is the slice [(k-1)*size, k*size) of the filtered
\* set ordered newest-first by ingestion timestamp (compared by the timestamps, so
\* that contents ingested at the same time may come in either order).
C14_PagesSliceNewestFirst ==
    (qreq.api = "list" /\ qres.status = 200) =>
        LET slice == PageSlice(NewestMatching(qreq.params), GetPageNumber(qreq.page),
                               GetPageSize(qreq.size))
        IN [i \in DOMAIN qres.items |-> contents[qres.items[i].id].timestamp] =
               [i \in DOMAIN slice |-> contents[slice[i]].timestamp]

\* C17: a request to the Query API whose timeframe is not an integer is rejected
\* with a client error.
C17_BadTimeframeIsClientError ==
    (qreq.api = "list" /\ qreq.params.timeframe # Absent
        /\ ~IsInt(Value(qreq.params.timeframe))) =>
        qres.status \in 400..499

\* C18: every item of a returned page has total_engagement = like_count +
\* comment_count + share_count, and engagement_rate = total_engagement / view_count
\* when view_count > 0 and 0 when view_count = 0.
C18_ItemEngagement ==
    (qreq.api = "list" /\ qres.status = 200) =>
        \A i \in DOMAIN qres.items :
            LET item == qres.items[i]
                row == contents[item.id]
                rate == item.engagement_rate
            IN /\ item.total_engagement = row.like_count + row.comment_count + row.share_count
               /\ rate[2] > 0
               /\ row.view_count > 0 => rate[1] * row.view_count = item.total_engagement * rate[2]
               /\ row.view_count = 0 => rate[1] = 0

\* A page with an item without views and an item with views and engagement.
C18_Witness ==
    /\ qreq.api = "list" /\ qres.status = 200
    /\ \E i, j \in DOMAIN qres.items :
          /\ qres.items[i].view_count = 0 /\ qres.items[i].total_engagement > 0
          /\ qres.items[j].view_count > 0 /\ qres.items[j].engagement_rate[1] > 0

\* The contents with fewer than ten newer ones.
TenNewest ==
    { c \in DOMAIN contents :
         Cardinality({ d \in DOMAIN contents : contents[d].timestamp > contents[c].timestamp }) < 10 }

CallsOf(r) == { a \in calls : a.run = r }

\* C20: a run of generate_comment invokes the collaborator only for contents among
\* the 10 with the newest ingestion timestamp, at most once for each and so at
\* most 10 times, and it changes no Author, Content, Tag or ContentTag row.
C20_OnlyTenNewestOncePerRun ==
    /\ [] ( /\ { a.cid : a \in calls } \subseteq TenNewest
            /\ \A r \in DOMAIN runs :
                  /\ Cardinality(CallsOf(r)) = Cardinality({ a.cid : a \in CallsOf(r) })
                  /\ Cardinality(CallsOf(r)) <= 10 )
    /\ [][ tables' = tables ]_vars

\* With more than 10 contents stored, a run has gone through its whole list.
C20_Witness ==
    /\ Len(contents) > 10
    /\ \E r \in DOMAIN runs :
          /\ runs[r].state = "returned"
          /\ { a.cid : a \in CallsOf(r) } = TenNewest

====
